---- MODULE Spec2Model ----
(***************************************************************************)
(* pr-review: the review orchestration engine of src/review.ts.            *)
(*                                                                         *)
(* One operating-system process runs at a time (one command-line           *)
(* invocation after the other); the session files under SESSION_DIR        *)
(* survive from one invocation to the next.  Inside an invocation the      *)
(* JavaScript event loop runs one continuation at a time: every action     *)
(* below is the code between two awaits (or between two event deliveries). *)
(***************************************************************************)
EXTENDS Integers, Sequences, FiniteSets, TLC

\* ---------------------------------------------------------------- bounds
MaxAgents == 2
MaxFrags == 1
MaxInvocations == 3

\* ------------------------------------------------------------------ state
VARIABLES
    inv,             \* number of process invocations so far
    mode,            \* "idle" | "review" | "continue": the running entry point
    pc,              \* where runReview / continueReview is
    agentNames,      \* options.agentNames
    model,           \* the settled value of resolveModel
    task,            \* the agent promises, by request position
    completed,       \* `completed`: ids pushed as tasks finish
    reports,         \* `reports`: the Map handed to runSummarizer
    summarizerCalls, \* calls of runSummarizer in this invocation
    originalFile,    \* runSummarizer's originalFile
    sessionOpen,     \* the durable conversation of this invocation is open
    prompt,          \* runSummarizer's prompt
    timers,          \* the spinners whose setInterval timer is running
    shown,           \* count in the text of runReview's spinner
    stderr,          \* process.stderr of this invocation
    handle,          \* the Conversation Handle of the synthesis / the continuation
    stdout,          \* process.stdout of this invocation
    err,             \* the rejection of runReview / continueReview
    files,           \* SESSION_DIR: path -> file
    argv,            \* cli.ts: process.argv.slice(2)
    cli,             \* cli.ts: the locals of the argument loop and the dispatch
    other,           \* a second pr-review process running at the same time
    verbose          \* options.verbose, the same in every invocation of a run

\* The state of the other specifications of this module, which the actions
\* of runReview and continueReview leave alone.
aux == <<argv, cli, other, verbose>>

vars == <<inv, mode, pc, agentNames, model, task, completed, reports,
          summarizerCalls, originalFile, sessionOpen, prompt, stdout, err,
          files, aux,
          handle,
          stderr,
          shown,
          timers>>

procVars == <<mode, pc, agentNames, model, task, completed, reports,
              summarizerCalls, originalFile, sessionOpen, prompt, stdout, err,
              handle,
              stderr,
              shown,
              timers>>

\* The state of runReview / continueReview and of the session directory.
coreVars == <<inv, files, procVars>>

\* ------------------------------------------------------- agents.ts (data)
\* AGENTS: Record<string, AgentDefinition>; only the display name matters here.
ALL_AGENT_NAMES == <<"bug", "test", "impact", "quality">>

AgentIds == {ALL_AGENT_NAMES[k] : k \in 1..Len(ALL_AGENT_NAMES)}

AGENTS(id) ==
    CASE id = "bug" -> [name |-> "Bug Hunter"]
      [] id = "test" -> [name |-> "Test Reviewer"]
      [] id = "impact" -> [name |-> "Impact Analyzer"]
      [] id = "quality" -> [name |-> "Code Quality"]

\* `if (!agent)`: AGENTS[name] is undefined for a key outside the registry.
IsRegistered(id) == id \in AgentIds

\* The ids a request is drawn from: two registered agents and one that is not.
RequestIds == {"bug", "quality", "nope"}

AgentNameLists == UNION {[1..n -> RequestIds] : n \in 0..MaxAgents}

\* ------------------------------------------------------------ model choice
Undefined == "<undefined>"

Sonnet == [provider |-> "anthropic", id |-> "claude-sonnet-4-20250514"]

Gpt == [provider |-> "openai", id |-> "gpt"]

NoModel == [provider |-> "", id |-> ""]

\* modelRegistry.getAvailable(): the models that have credentials configured.
AvailableLists == {<<>>, <<Sonnet>>, <<Sonnet, Gpt>>}

\* options.modelId: absent, empty, a bare id, provider/id, an unknown id.
ModelIds == {Undefined, "", "claude-sonnet-4-20250514",
             "anthropic/claude-sonnet-4-20250514", "claude-3"}

\* authStorage.getApiKey("anthropic"): a key can be had only when anthropic
\* is configured, and even then the lookup may come back empty.
ApiKeys(available) ==
    IF \E k \in 1..Len(available) : available[k].provider = "anthropic"
    THEN BOOLEAN
    ELSE {FALSE}

\* JavaScript truthiness of an optional string.
Truthy(s) == s # Undefined /\ s # ""

Min(S) == CHOOSE x \in S : \A y \in S : x <= y

\* resolveModel: [ok, model]; ok = FALSE stands for the thrown Error.
resolveModel(available, key, modelId) ==
    IF Truthy(modelId)
    THEN LET hits == {k \in 1..Len(available) :
                         \/ available[k].id = modelId
                         \/ available[k].provider \o "/" \o available[k].id = modelId}
         IN  IF hits # {}
             THEN [ok |-> TRUE, model |-> available[Min(hits)]]
             ELSE [ok |-> FALSE, model |-> NoModel]
    ELSE IF key
         THEN [ok |-> TRUE, model |-> Sonnet]
         ELSE IF Len(available) = 0
              THEN [ok |-> FALSE, model |-> NoModel]
              ELSE [ok |-> TRUE, model |-> available[1]]

\* ------------------------------------------------------------- the files
SESSION_FILE == "last-session.jsonl"

\* The file SessionManager.create() names for a new review (the most recent
\* one is kept in the model; older ones are never touched again).
ORIGINAL_FILE == "session.jsonl"

Paths == {SESSION_FILE, ORIGINAL_FILE}

NoPath == ""

Absent == [exists |-> FALSE, log |-> <<>>]

File(log) == [exists |-> TRUE, log |-> log]

\* One record of the conversation log: the synthesis exchange of a review,
\* the exchange of a continuation, or a turn left behind by a failed prompt.
Turn(kind, n) == [kind |-> kind, inv |-> n]

existsSync(fs, path) == fs[path].exists

\* The session manager appends a turn to the file it was created/opened on.
appendTurn(fs, path, turn) ==
    [fs EXCEPT ![path] = File(fs[path].log \o <<turn>>)]

\* Variant: the synthesis conversation is created at the well-known pointer
\* itself instead of at a name of its own.
getSessionFile_InPlace == SESSION_FILE

\* SessionManager.create(cwd, SESSION_DIR).getSessionFile(): a new file name
\* inside SESSION_DIR; the file is written when turns are persisted.
getSessionFile == ORIGINAL_FILE

\* SessionManager.create: nothing is at the new name yet.
SessionManagerCreate(fs) == [fs EXCEPT ![getSessionFile] = Absent]

\* Variant: the continuation works on the internal backing file instead of
\* on the well-known pointer.
ContinueSessionFile_Internal == ORIGINAL_FILE

\* SessionManager.open(SESSION_FILE, SESSION_DIR): the file continued in place.
ContinueSessionFile == SESSION_FILE

\* Variant: a copy that does not overwrite an existing destination
\* (COPYFILE_EXCL, with the error swallowed).
copyFileSync_NoOverwrite(fs, src, dst) ==
    IF fs[dst].exists THEN fs ELSE [fs EXCEPT ![dst] = fs[src]]

\* fs.copyFileSync(originalFile, SESSION_FILE), guarded by existsSync.
copyFileSync(fs, src, dst) == [fs EXCEPT ![dst] = fs[src]]

\* Variant: promotion by rename, which takes the backing file away.
PromoteSession_Move(fs, orig) ==
    IF orig # NoPath /\ existsSync(fs, orig)
    THEN [copyFileSync(fs, orig, SESSION_FILE) EXCEPT ![orig] = Absent]
    ELSE fs

PromoteSession(fs, orig) ==
    IF orig # NoPath /\ existsSync(fs, orig)
    THEN copyFileSync(fs, orig, SESSION_FILE)
    ELSE fs

\* Variant: continueReview without its existence check.
HasPreviousSession_Unchecked(fs) == TRUE

\* continueReview's precondition.
HasPreviousSession(fs) == existsSync(fs, SESSION_FILE)

\* ----------------------------------------------------------------- errors
NoError == [type |-> "none", from |-> 0]

Error(type, from) == [type |-> type, from |-> from]

\* What has been done with a Conversation Handle: whether a subscriber is
\* registered, how many prompts it was sent, and whether one of them was sent
\* before any subscriber was registered.
NoHandle == [subscribed |-> FALSE, prompts |-> 0, early |-> FALSE, retries |-> 0]

\* settingsManager: `retry: { enabled: true, maxRetries: 2 }`
maxRetries == 2

\* Variant: retry without a limit.
CanRetry_Unbounded(h) == TRUE

\* The session may send the turn again after a transport error while fewer
\* than maxRetries retries were made for it.
CanRetry(h) == h.retries < maxRetries

Retry(h) == [h EXCEPT !.retries = @ + 1]

\* session.subscribe(...)
Subscribe(h) == [h EXCEPT !.subscribed = TRUE]

\* session.prompt(...)
Prompt(h) == [h EXCEPT !.prompts = @ + 1, !.early = @ \/ ~h.subscribed]

\* Variant: the prompt is sent first and the subscriber registered after.
SubscribeAndPrompt_PromptFirst(h) == Subscribe(Prompt(h))

\* In all three stages: `session.subscribe(...)`, the prompt text, then
\* `await session.prompt(...)`.
SubscribeAndPrompt(h) == Prompt(Subscribe(h))

\* ------------------------------------------------------------ agent tasks
\* st: "opening"   createAgentSession called, not yet resolved
\*     "prompting" session open, subscribed, prompt in flight
\*     "resolved"  prompt completed, session disposed, callback returned
\*     "failed"    prompt rejected (ModelInvocationFailed)
\*     "unknown"   the callback threw `Unknown agent` (no executor called)
\* `emitted` counts the text fragments its conversation has produced,
\* `result` is runSubAgent's local `result`, `session` the Conversation
\* Handle ("none", "open", "disposed").
\* `h` is what has been done with the handle.
Task(st) ==
    [st |-> st, result |-> <<>>, emitted |-> 0, session |-> "none", h |-> NoHandle]

\* agentNames.map(async (name) => ...): each callback runs synchronously up
\* to its first await, in request order.
FanOut(names) ==
    [i \in 1..Len(names) |->
        IF IsRegistered(names[i]) THEN Task("opening") ELSE Task("unknown")]

\* The first callback that threw, in request order (Promise.all rejects
\* with the first rejection).
FirstUnknown(names) ==
    LET bad == {i \in 1..Len(names) : ~IsRegistered(names[i])}
    IN  IF bad = {} THEN 0 ELSE Min(bad)

\* Variant: the agents are started without waiting for the model.
TasksAfterResolve_FanOutFirst(r, names) == FanOut(names)

\* `const model = await resolveModel(...)` comes before the map: nothing is
\* started when it throws.
TasksAfterResolve(r, names) == IF r.ok THEN FanOut(names) ELSE <<>>

\* Variant: Promise.allSettled, which never rejects.
PromiseAll_AllSettled(t) ==
    IF \A i \in 1..Len(t) : t[i].st \in {"resolved", "failed", "unknown"}
    THEN "fulfilled"
    ELSE "pending"

\* Variant: a join that fulfils with the first fulfilled promise (Promise.any).
PromiseAll_Any(t) ==
    IF \E i \in 1..Len(t) : t[i].st \in {"failed", "unknown"} THEN "rejected"
    ELSE IF Len(t) = 0 \/ \E i \in 1..Len(t) : t[i].st = "resolved" THEN "fulfilled"
    ELSE "pending"

\* Variant: a join that waits for at least one promise.
PromiseAll_NonEmpty(t) ==
    IF \E i \in 1..Len(t) : t[i].st \in {"failed", "unknown"} THEN "rejected"
    ELSE IF Len(t) > 0 /\ \A i \in 1..Len(t) : t[i].st = "resolved"
         THEN "fulfilled"
    ELSE "pending"

\* Promise.all(agentPromises): rejected as soon as one promise has rejected,
\* fulfilled when every promise has fulfilled, pending otherwise.
PromiseAll(t) ==
    IF \E i \in 1..Len(t) : t[i].st \in {"failed", "unknown"} THEN "rejected"
    ELSE IF \A i \in 1..Len(t) : t[i].st = "resolved" THEN "fulfilled"
    ELSE "pending"

\* Variant: results pushed as the tasks complete.
PromiseAllResults_CompletionOrder(t, names) ==
    [k \in 1..Len(completed) |->
        LET i == Min({j \in 1..Len(names) : names[j] = completed[k]})
        IN  <<AGENTS(names[i]).name, t[i].result>>]

\* Its value: the results by position, `[agent.name, report]`.
PromiseAllResults(t, names) ==
    [i \in 1..Len(t) |-> <<AGENTS(names[i]).name, t[i].result>>]

\* Variant: a list of entries instead of a Map (a repeated key is kept twice).
MapSet_Append(m, k, v) == Append(m, <<k, v>>)

\* new Map(results): insertion order of first occurrence; a repeated key
\* keeps its place and takes the later value.
MapSet(m, k, v) ==
    LET at == {j \in 1..Len(m) : m[j][1] = k}
    IN  IF at = {} THEN Append(m, <<k, v>>)
        ELSE [m EXCEPT ![Min(at)] = <<k, v>>]

RECURSIVE MapFrom(_, _)
MapFrom(results, n) ==
    IF n = 0 THEN <<>>
    ELSE MapSet(MapFrom(results, n - 1), results[n][1], results[n][2])

NewMap(results) == MapFrom(results, Len(results))

MapKeys(m) == [j \in 1..Len(m) |-> m[j][1]]

\* `if (verbose) process.stderr.write(...)`
StderrWrite(verb, out, entry) == IF verb THEN Append(out, entry) ELSE out

RECURSIVE StderrWriteAll(_, _, _)
StderrWriteAll(verb, out, entries) ==
    IF entries = <<>> THEN out
    ELSE StderrWriteAll(verb, StderrWrite(verb, out, Head(entries)), Tail(entries))

\* What runReview writes to stderr between `await resolveModel` and
\* `await Promise.all`: the model and agents lines, then in the map, for
\* each registered agent in request order, its opening rule.
FanOutStderr(names) ==
    <<<<"model", 0, 0>>, <<"agents", 0, 0>>>> \o
    [k \in 1..Cardinality({i \in 1..Len(names) : IsRegistered(names[i])}) |->
        <<"begin",
          CHOOSE i \in 1..Len(names) :
              /\ IsRegistered(names[i])
              /\ Cardinality({j \in 1..i : IsRegistered(names[j])}) = k,
          0>>]

\* spinner.ts createSpinner(text, quiet): update, succeed, fail and stop do
\* nothing when quiet is set (stderr is taken to be a terminal); otherwise
\* the text, here its count, is replaced.
SpinnerText(q, cur, n) == IF q THEN cur ELSE n

\* cli.ts `let quiet = false`: the run is made without --quiet.
quiet == FALSE

\* createSpinner(text, quiet): unless quiet, setInterval(render, 80) starts
\* the spinner's timer.
SpinnerCreate(q, ts, name) == IF q THEN ts ELSE ts \cup {name}

\* stop(), also called by succeed() and fail(): clearInterval.
SpinnerStop(ts, name) == ts \ {name}

\* runSummarizer's `firstChunk`: no text_delta of the synthesis has been
\* written yet.
firstChunk(out) == \A k \in 1..Len(out) : out[k][1] # "summary"

\* updateSpinner's `remaining`: the request positions whose id is not in
\* `completed`.
Remaining(names, compl) ==
    {i \in 1..Len(names) : \A k \in 1..Len(compl) : compl[k] # names[i]}

\* Variant: the spinner shows the number of agents still running.
updateSpinner_Remaining(q, names, compl, cur) ==
    SpinnerText(q, cur, Cardinality(Remaining(names, compl)))

\* updateSpinner: while an agent remains, the text becomes
\* "Running <name>... (<completed.length>/<total>)".
updateSpinner(q, names, compl, cur) ==
    IF Remaining(names, compl) # {}
    THEN SpinnerText(q, cur, Len(compl))
    ELSE cur

Unresolved == [ok |-> FALSE, model |-> NoModel]

\* The text of the git diff handed to runReview.
Diff == "diff"

\* The opening of the prompt: "Here is the git diff: ...".
DiffPart(diff) == [kind |-> "diff", label |-> diff, body |-> <<>>]

\* `## ${name}\n\n${report}\n\n---\n\n` for one entry of the Map.
Section(entry) == [kind |-> "section", label |-> entry[1], body |-> entry[2]]

\* Variant: the reports are put before the diff.
SummarizerPrompt_ReportsFirst(diff, m) ==
    [j \in 1..Len(m) |-> Section(m[j])] \o <<DiffPart(diff)>>

\* runSummarizer's prompt: the diff, then `for (const [name, report] of
\* reports)` one section per entry in the Map's iteration order.
SummarizerPrompt(diff, m) ==
    <<DiffPart(diff)>> \o [j \in 1..Len(m) |-> Section(m[j])]

\* ----------------------------------------------------------------- cli.ts
MaxArgs == 3

\* The arguments tried: pr-review's options -h, -v, -a NAMES, -c MSG, the
\* forms of git's unified-context option, and values for them.
ArgTokens ==
    {"-h", "-v", "-a", "bug", "-c", "", "msg", "-U", "-U5", "5", "--unified=3", "HEAD"}

Argvs == UNION {[1..n -> ArgTokens] : n \in 0..MaxArgs}

\* arg.match(/^\d+$/)
IsDigits(a) == a \in {"5"}

\* arg.match(/^-U\d+$/)
IsDashUDigits(a) == a \in {"-U5"}

\* arg.match(/^--unified=\d+$/)
IsUnifiedEq(a) == a \in {"--unified=3"}

\* `-U${n}` for the decimal numerals in use.
DashU(n) == IF n = "5" THEN "-U5" ELSE IF n = "3" THEN "-U3" ELSE "-U10"

\* arg.slice(2) / arg.split("=")[1] through parseInt(..., 10), as its decimal
\* numeral.
ContextOf(a) ==
    IF a = "-U5" THEN "5" ELSE IF a = "--unified=3" THEN "3" ELSE a

\* args[i].split(",").map((s) => s.trim()) for an argument without commas
\* or blanks.
SplitAgents(a) == <<a>>

\* The locals before the loop: `let contextValue = 10`, `let i = 0`, ...
CliInit ==
    [pc |-> "parsing", i |-> 1, gitArgs |-> <<>>, agentNames |-> ALL_AGENT_NAMES,
     verbose |-> FALSE, contextValue |-> "10", hasUnifiedContext |-> FALSE,
     continueMessage |-> Undefined, code |-> 0, gitCommand |-> <<>>, ranGit |-> FALSE]

\* process.exit(code), also through usage(code).
CliExit(c, code) == [c EXCEPT !.pc = "exit", !.code = code]

\* `else if (arg === "-U")`: i++ and, only if the next argument is a number,
\* push `-U${args[i]}`; then the i++ that ends the default case.
DashUAlone(c, args) ==
    [c EXCEPT !.hasUnifiedContext = TRUE,
              !.gitArgs = IF c.i + 1 <= Len(args) /\ IsDigits(args[c.i + 1])
                          THEN Append(@, DashU(args[c.i + 1]))
                          ELSE @,
              !.contextValue = IF c.i + 1 <= Len(args) /\ IsDigits(args[c.i + 1])
                               THEN args[c.i + 1] ELSE @,
              !.i = c.i + 2]

\* One iteration of `while (i < args.length) { switch (arg) ... }`.
ParseArg(c, args) ==
    LET arg == args[c.i]
        missing == c.i + 1 > Len(args)
    IN  IF arg = "-h" THEN CliExit(c, 0)
        ELSE IF arg = "-v" THEN [c EXCEPT !.verbose = TRUE, !.i = c.i + 1]
        ELSE IF arg = "-a" THEN
            IF missing THEN CliExit(c, 1)
            ELSE LET names == SplitAgents(args[c.i + 1])
                 IN  IF \E k \in 1..Len(names) : ~IsRegistered(names[k])
                     THEN CliExit([c EXCEPT !.agentNames = names], 1)
                     ELSE [c EXCEPT !.agentNames = names, !.i = c.i + 2]
        ELSE IF arg = "-c" THEN
            IF missing THEN CliExit(c, 1)
            ELSE [c EXCEPT !.continueMessage = args[c.i + 1], !.i = c.i + 2]
        ELSE IF IsDashUDigits(arg) \/ IsUnifiedEq(arg) THEN
            [c EXCEPT !.hasUnifiedContext = TRUE, !.contextValue = ContextOf(arg),
                      !.gitArgs = Append(@, arg), !.i = c.i + 1]
        ELSE IF arg = "-U" THEN DashUAlone(c, args)
        ELSE [c EXCEPT !.gitArgs = Append(@, arg), !.i = c.i + 1]

\* `if (continueMessage)`: undefined and the empty string are falsy.
IsContinueMode(msg) == Truthy(msg)

\* `if (!hasUnifiedContext) gitArgs.unshift(`-U${contextValue}`)`
GitDiffArgs(c) ==
    IF ~c.hasUnifiedContext THEN <<DashU(c.contextValue)>> \o c.gitArgs
    ELSE c.gitArgs

\* The outcomes of execSync(`git diff ...`).
GitOutcomes == {"failed", "empty", "diff"}

CliParseArg ==
    /\ cli.pc = "parsing"
    /\ cli.i <= Len(argv)
    /\ cli' = ParseArg(cli, argv)
    /\ UNCHANGED <<argv, coreVars, other, verbose>>

\* The loop has ended and continueMessage is truthy: continueReview is
\* called.
CliDispatchContinue ==
    /\ cli.pc = "parsing"
    /\ cli.i > Len(argv)
    /\ IsContinueMode(cli.continueMessage)
    /\ cli' = [cli EXCEPT !.pc = "continueReview"]
    /\ UNCHANGED <<argv, coreVars, other, verbose>>

\* The else branch: the default -U, git diff, the empty-diff exit, and the
\* call of runReview.
CliDispatchReview(outcome) ==
    /\ cli.pc = "parsing"
    /\ cli.i > Len(argv)
    /\ ~IsContinueMode(cli.continueMessage)
    /\ cli' = [cli EXCEPT !.gitCommand = GitDiffArgs(cli),
                          !.ranGit = TRUE,
                          !.pc = IF outcome = "diff" THEN "runReview" ELSE "exit",
                          !.code = IF outcome = "diff" THEN 0 ELSE 1]
    /\ UNCHANGED <<argv, coreVars, other, verbose>>

InitCore ==
    /\ inv = 0
    /\ mode = "idle"
    /\ pc = "idle"
    /\ agentNames = <<>>
    /\ model = Unresolved
    /\ task = <<>>
    /\ completed = <<>>
    /\ reports = <<>>
    /\ summarizerCalls = 0
    /\ originalFile = NoPath
    /\ sessionOpen = FALSE
    /\ prompt = <<>>
    /\ timers = {}
    /\ shown = 0
    /\ stderr = <<>>
    /\ handle = NoHandle
    /\ stdout = <<>>
    /\ err = NoError
    /\ files = [p \in Paths |-> Absent]

\* No second process.
OtherOff == [pc |-> "off", opened |-> <<>>]

Init ==
    /\ InitCore
    /\ argv = <<>>
    /\ cli = CliInit
    /\ other = OtherOff
    /\ verbose = FALSE

\* ------------------------------------------------------------- runReview
\* cli.ts calls runReview in a new process; the function creates its
\* spinner and runs up to `await resolveModel(...)`.
StartReview(names, modelId, available, key) ==
    /\ mode = "idle"
    /\ inv < MaxInvocations
    /\ inv' = inv + 1
    /\ mode' = "review"
    /\ pc' = "resolving"
    /\ agentNames' = names
    /\ model' = resolveModel(available, key, modelId)
    /\ timers' = SpinnerCreate(quiet \/ verbose, timers, "agents")
    /\ UNCHANGED <<task, completed, reports, summarizerCalls, originalFile,
                   sessionOpen, stdout, err, files, prompt, aux,
                   handle, stderr, shown>>

\* The continuation of `await resolveModel(...)`: the throw, or the map over
\* agentNames and `await Promise.all(agentPromises)`.
ReviewModelResolved ==
    /\ mode = "review"
    /\ pc = "resolving"
    /\ task' = TasksAfterResolve(model, agentNames)
    /\ IF ~model.ok
       THEN /\ pc' = "rejected"
            /\ err' = Error("NoModelAvailable", 0)
       ELSE IF PromiseAll(task') = "rejected"
            THEN /\ pc' = "rejected"
                 /\ err' = Error("UnknownAgent", FirstUnknown(agentNames))
            ELSE /\ pc' = "joining"
                 /\ err' = err
    /\ stderr' = IF model.ok
                 THEN StderrWriteAll(verbose, stderr, FanOutStderr(agentNames))
                 ELSE stderr
    /\ shown' = IF model.ok THEN SpinnerText(quiet \/ verbose, shown, 0) ELSE shown
    /\ UNCHANGED <<inv, mode, agentNames, model, completed, reports,
                   summarizerCalls, originalFile, sessionOpen, stdout, files,
                   prompt, aux,
                   handle, timers>>

\* runSubAgent after `await createAgentSession`: subscribe, build the
\* prompt, call session.prompt.
SubAgentSessionCreated(i) ==
    /\ mode = "review"
    /\ i \in 1..Len(task)
    /\ task[i].st = "opening"
    /\ task' = [task EXCEPT ![i].st = "prompting", ![i].session = "open",
                            ![i].h = SubscribeAndPrompt(@)]
    /\ UNCHANGED <<inv, mode, pc, agentNames, model, completed, reports,
                   summarizerCalls, originalFile, sessionOpen, stdout, err, files,
                   prompt, aux,
                   handle, stderr, shown, timers>>

\* Variant: the agent's subscriber echoes the fragment to stdout.
SubAgentStdout_Echo(out, delta) == Append(out, <<"agent", delta[2]>>)

\* What the subscriber of runSubAgent writes to stdout on a text_delta:
\* nothing (with --verbose the fragment goes to stderr).
SubAgentStdout(out, delta) == out

\* Variant: one `result` shared by all the calls of runSubAgent.
Accumulate_Shared(t, i, delta) ==
    [j \in 1..Len(t) |-> [t[j] EXCEPT !.result = Append(@, delta)]]

\* `result += delta` on the `let result = ""` of call i of runSubAgent.
Accumulate(t, i, delta) == [t EXCEPT ![i].result = Append(@, delta)]

\* Conversation i produces its next fragment and the subscriber of
\* runSubAgent gets the text_delta: `result += delta`.
SubAgentFragment(i) ==
    /\ mode = "review"
    /\ i \in 1..Len(task)
    /\ task[i].st = "prompting"
    /\ task[i].emitted < MaxFrags
    /\ task' = Accumulate([task EXCEPT ![i].emitted = @ + 1],
                          i, <<i, task[i].emitted + 1>>)
    /\ stdout' = SubAgentStdout(stdout, <<i, task[i].emitted + 1>>)
    /\ stderr' = StderrWrite(verbose, stderr, <<"delta", i, task[i].emitted + 1>>)
    /\ UNCHANGED <<inv, mode, pc, agentNames, model, completed, reports,
                   summarizerCalls, originalFile, sessionOpen, err, files,
                   prompt, aux,
                   handle, shown, timers>>

\* `await session.prompt` fulfils: dispose, return; back in the map
\* callback: completed.push(name), the promise fulfils.
SubAgentDone(i) ==
    /\ mode = "review"
    /\ i \in 1..Len(task)
    /\ task[i].st = "prompting"
    /\ task' = [task EXCEPT ![i].st = "resolved", ![i].session = "disposed"]
    /\ completed' = Append(completed, agentNames[i])
    /\ stderr' = StderrWrite(verbose, stderr, <<"end", i, 0>>)
    /\ shown' = updateSpinner(quiet \/ verbose, agentNames, completed', shown)
    /\ UNCHANGED <<inv, mode, pc, agentNames, model, reports,
                   summarizerCalls, originalFile, sessionOpen, stdout, err, files,
                   prompt, aux,
                   handle, timers>>

\* Variant: the failure of one task aborts the tasks still running.
FailTask_AbortSiblings(t, i) ==
    [j \in 1..Len(t) |->
        IF j = i \/ t[j].st \in {"opening", "prompting"}
        THEN [t[j] EXCEPT !.st = "failed"]
        ELSE t[j]]

\* The promise of task i rejects; nothing is done to the other promises.
FailTask(t, i) == [t EXCEPT ![i].st = "failed"]

\* Variant: a later rejection replaces the reason.
Reject_LastWins(reason, e) == e

\* A promise settles once: rejecting Promise.all (and with it runReview)
\* again, when it has a reason already, changes nothing.
Reject(reason, e) == IF reason = NoError THEN e ELSE reason

\* `await session.prompt` rejects: the task's promise rejects, and
\* Promise.all with it unless it has settled already.
SubAgentFail(i) ==
    /\ mode = "review"
    /\ i \in 1..Len(task)
    /\ task[i].st = "prompting"
    /\ task' = FailTask(task, i)
    /\ pc' = "rejected"
    /\ err' = Reject(err, Error("ModelInvocationFailed", i))
    /\ UNCHANGED <<inv, mode, agentNames, model, completed, reports,
                   summarizerCalls, originalFile, sessionOpen, stdout, files,
                   prompt, aux,
                   handle, stderr, shown, timers>>

\* The continuation of `await Promise.all`: new Map(results),
\* spinner.succeed("Agents complete (total/total)"), the summarizer's
\* spinner is created, then runSummarizer up to `await createAgentSession`.
JoinFulfilled ==
    /\ mode = "review"
    /\ pc = "joining"
    /\ PromiseAll(task) = "fulfilled"
    /\ reports' = NewMap(PromiseAllResults(task, agentNames))
    /\ summarizerCalls' = summarizerCalls + 1
    /\ files' = SessionManagerCreate(files)
    /\ originalFile' = getSessionFile
    /\ pc' = "summarizer_opening"
    /\ stderr' = StderrWrite(verbose, stderr, <<"summarizer", 0, 0>>)
    /\ shown' = SpinnerText(quiet \/ verbose, shown, Len(agentNames))
    /\ timers' = SpinnerCreate(quiet \/ verbose,
                               SpinnerStop(timers, "agents"), "summary")
    /\ UNCHANGED <<inv, mode, agentNames, model, task, completed,
                   sessionOpen, stdout, err, prompt, aux,
                   handle>>

\* runSummarizer after `await createAgentSession`: subscribe, build the
\* prompt, call session.prompt.
SummarizerSessionCreated ==
    /\ mode = "review"
    /\ pc = "summarizer_opening"
    /\ pc' = "summarizer_prompting"
    /\ sessionOpen' = TRUE
    /\ handle' = SubscribeAndPrompt(NoHandle)
    /\ prompt' = SummarizerPrompt(Diff, reports)
    /\ UNCHANGED <<inv, mode, agentNames, model, task, completed, reports,
                   summarizerCalls, originalFile, stdout, err, files, aux,
                   stderr, shown, timers>>

\* The subscriber of runSummarizer on a text_delta: on the first one
\* (`firstChunk`) spinner?.stop(); then process.stdout.write.
SummarizerFragment ==
    /\ mode = "review"
    /\ pc = "summarizer_prompting"
    /\ Len(stdout) < MaxFrags
    /\ stdout' = Append(stdout, <<"summary", Len(stdout) + 1>>)
    /\ timers' = IF firstChunk(stdout)
                 THEN SpinnerStop(timers, "summary")
                 ELSE timers
    /\ UNCHANGED <<inv, mode, pc, agentNames, model, task, completed, reports,
                   summarizerCalls, originalFile, sessionOpen, err, files,
                   prompt, aux,
                   handle, stderr, shown>>

\* `await session.prompt` fulfils (the session manager has persisted the
\* exchange): dispose, promote, return; runReview writes "\n".
SummarizerDone ==
    /\ mode = "review"
    /\ pc = "summarizer_prompting"
    /\ files' = PromoteSession(
                   appendTurn(files, originalFile, Turn("synthesis", inv)),
                   originalFile)
    /\ sessionOpen' = FALSE
    /\ stdout' = Append(stdout, <<"newline", 0>>)
    /\ pc' = "done"
    /\ UNCHANGED <<inv, mode, agentNames, model, task, completed, reports,
                   summarizerCalls, originalFile, err, prompt, aux,
                   handle, stderr, shown, timers>>

\* `await session.prompt` rejects: runSummarizer and runReview reject.  The
\* backing file may hold what was persisted before the failure.
SummarizerFail ==
    /\ mode = "review"
    /\ pc = "summarizer_prompting"
    /\ \/ files' = files
       \/ files' = appendTurn(files, originalFile, Turn("partial", inv))
    /\ pc' = "rejected"
    /\ err' = Error("ModelInvocationFailed", 0)
    /\ UNCHANGED <<inv, mode, agentNames, model, task, completed, reports,
                   summarizerCalls, originalFile, sessionOpen, stdout, prompt, aux,
                   handle, stderr, shown, timers>>

\* ---------------------------------------------------------- continueReview
\* cli.ts calls continueReview in a new process: the existence check, then
\* up to `await resolveModel(...)`.
StartContinue(modelId, available, key) ==
    /\ mode = "idle"
    /\ inv < MaxInvocations
    /\ inv' = inv + 1
    /\ mode' = "continue"
    /\ IF ~HasPreviousSession(files)
       THEN /\ pc' = "rejected"
            /\ err' = Error("NoPreviousSession", 0)
            /\ model' = model
       ELSE /\ pc' = "resolving"
            /\ err' = err
            /\ model' = resolveModel(available, key, modelId)
    /\ timers' = IF HasPreviousSession(files)
                 THEN SpinnerCreate(quiet, timers, "session")
                 ELSE timers
    /\ UNCHANGED <<agentNames, task, completed, reports, summarizerCalls,
                   originalFile, sessionOpen, stdout, files, prompt, aux,
                   handle, stderr, shown>>

\* The continuation of `await resolveModel(...)`: the throw, or
\* SessionManager.open and createAgentSession.
ContinueModelResolved ==
    /\ mode = "continue"
    /\ pc = "resolving"
    /\ IF model.ok
       THEN /\ pc' = "continue_opening"
            /\ err' = err
       ELSE /\ pc' = "rejected"
            /\ err' = Error("NoModelAvailable", 0)
    /\ UNCHANGED <<inv, mode, agentNames, model, task, completed, reports,
                   summarizerCalls, originalFile, sessionOpen, stdout, files,
                   prompt, aux,
                   handle, stderr, shown, timers>>

\* continueReview after `await createAgentSession`:
\* spinner.succeed("Session loaded"), subscribe, prompt.
ContinueSessionCreated ==
    /\ mode = "continue"
    /\ pc = "continue_opening"
    /\ pc' = "continue_prompting"
    /\ sessionOpen' = TRUE
    /\ handle' = SubscribeAndPrompt(NoHandle)
    /\ timers' = SpinnerStop(timers, "session")
    /\ UNCHANGED <<inv, mode, agentNames, model, task, completed, reports,
                   summarizerCalls, originalFile, stdout, err, files, prompt, aux,
                   stderr, shown>>

\* The subscriber of continueReview on a text_delta: process.stdout.write.
ContinueFragment ==
    /\ mode = "continue"
    /\ pc = "continue_prompting"
    /\ Len(stdout) < MaxFrags
    /\ stdout' = Append(stdout, <<"answer", Len(stdout) + 1>>)
    /\ UNCHANGED <<inv, mode, pc, agentNames, model, task, completed, reports,
                   summarizerCalls, originalFile, sessionOpen, err, files,
                   prompt, aux,
                   handle, stderr, shown, timers>>

\* `await session.prompt` fulfils (the session manager has appended the
\* exchange to the opened file): dispose, write "\n".
ContinueDone ==
    /\ mode = "continue"
    /\ pc = "continue_prompting"
    /\ files' = appendTurn(files, ContinueSessionFile, Turn("continuation", inv))
    /\ sessionOpen' = FALSE
    /\ stdout' = Append(stdout, <<"newline", 0>>)
    /\ pc' = "done"
    /\ UNCHANGED <<inv, mode, agentNames, model, task, completed, reports,
                   summarizerCalls, originalFile, err, prompt, aux,
                   handle, stderr, shown, timers>>

\* `await session.prompt` rejects: continueReview rejects; the opened file
\* is as before or holds a dangling turn.
ContinueFail ==
    /\ mode = "continue"
    /\ pc = "continue_prompting"
    /\ \/ files' = files
       \/ files' = appendTurn(files, ContinueSessionFile, Turn("partial", inv))
    /\ pc' = "rejected"
    /\ err' = Error("ModelInvocationFailed", 0)
    /\ UNCHANGED <<inv, mode, agentNames, model, task, completed, reports,
                   summarizerCalls, originalFile, sessionOpen, stdout, prompt, aux,
                   handle, stderr, shown, timers>>

\* ------------------------------------------------------------ process end
\* The process ends: after a fulfilled run when nothing is pending, after a
\* rejected one by the catch handler's process.exit(1).  Only the files
\* remain.
Exit ==
    /\ pc \in {"done", "rejected"}
    /\ mode' = "idle"
    /\ pc' = "idle"
    /\ agentNames' = <<>>
    /\ model' = Unresolved
    /\ task' = <<>>
    /\ completed' = <<>>
    /\ reports' = <<>>
    /\ summarizerCalls' = 0
    /\ originalFile' = NoPath
    /\ sessionOpen' = FALSE
    /\ prompt' = <<>>
    /\ timers' = {}
    /\ shown' = 0
    /\ stderr' = <<>>
    /\ handle' = NoHandle
    /\ stdout' = <<>>
    /\ err' = NoError
    /\ UNCHANGED <<inv, files, aux>>

Next ==
    \/ /\ mode = "idle"
       /\ \E names \in AgentNameLists, modelId \in ModelIds, available \in AvailableLists :
             \E key \in ApiKeys(available) : StartReview(names, modelId, available, key)
    \/ ReviewModelResolved
    \/ \E i \in 1..MaxAgents : SubAgentSessionCreated(i)
    \/ \E i \in 1..MaxAgents : SubAgentFragment(i)
    \/ \E i \in 1..MaxAgents : SubAgentDone(i)
    \/ \E i \in 1..MaxAgents : SubAgentFail(i)
    \/ JoinFulfilled
    \/ SummarizerSessionCreated
    \/ SummarizerFragment
    \/ SummarizerDone
    \/ SummarizerFail
    \/ /\ mode = "idle"
       /\ \E modelId \in ModelIds, available \in AvailableLists :
             \E key \in ApiKeys(available) : StartContinue(modelId, available, key)
    \/ ContinueModelResolved
    \/ ContinueSessionCreated
    \/ ContinueFragment
    \/ ContinueDone
    \/ ContinueFail
    \/ Exit

Spec == Init /\ [][Next]_vars

\* ------------------------------------------------ a process that is killed
\* The steps of SummarizerDone one by one, for a process that can end
\* between any two of them.  `await session.prompt` fulfils (the exchange is
\* in the backing file) and the conversation is disposed.
SummarizerPromptFulfilled ==
    /\ mode = "review"
    /\ pc = "summarizer_prompting"
    /\ files' = appendTurn(files, originalFile, Turn("synthesis", inv))
    /\ sessionOpen' = FALSE
    /\ pc' = "promoting"
    /\ UNCHANGED <<inv, mode, agentNames, model, task, completed, reports,
                   summarizerCalls, originalFile, stdout, err, prompt, aux,
                   handle, stderr, shown, timers>>

\* fs.copyFileSync opens its destination for writing, creating or
\* truncating it, ...
CopyFileOpen ==
    /\ mode = "review"
    /\ pc = "promoting"
    /\ originalFile # NoPath /\ existsSync(files, originalFile)
    /\ files' = [files EXCEPT ![SESSION_FILE] = File(<<>>)]
    /\ pc' = "copying"
    /\ UNCHANGED <<inv, mode, agentNames, model, task, completed, reports,
                   summarizerCalls, originalFile, sessionOpen, stdout, err,
                   prompt, aux,
                   handle, stderr, shown, timers>>

\* ... and then writes the source's content into it; runSummarizer returns
\* and runReview writes "\n".
CopyFileWrite ==
    /\ mode = "review"
    /\ pc = "copying"
    /\ files' = copyFileSync(files, originalFile, SESSION_FILE)
    /\ stdout' = Append(stdout, <<"newline", 0>>)
    /\ pc' = "done"
    /\ UNCHANGED <<inv, mode, agentNames, model, task, completed, reports,
                   summarizerCalls, originalFile, sessionOpen, err, prompt, aux,
                   handle, stderr, shown, timers>>

\* The process is killed (a signal, the machine going down): its memory is
\* gone, the files are as they were written so far.
Crash ==
    /\ mode # "idle"
    /\ mode' = "idle"
    /\ pc' = "idle"
    /\ agentNames' = <<>>
    /\ model' = Unresolved
    /\ task' = <<>>
    /\ completed' = <<>>
    /\ reports' = <<>>
    /\ summarizerCalls' = 0
    /\ originalFile' = NoPath
    /\ sessionOpen' = FALSE
    /\ prompt' = <<>>
    /\ timers' = {}
    /\ shown' = 0
    /\ stderr' = <<>>
    /\ handle' = NoHandle
    /\ stdout' = <<>>
    /\ err' = NoError
    /\ UNCHANGED <<inv, files, aux>>

NextCrash ==
    \/ /\ mode = "idle"
       /\ \E names \in AgentNameLists, modelId \in ModelIds, available \in AvailableLists :
             \E key \in ApiKeys(available) : StartReview(names, modelId, available, key)
    \/ ReviewModelResolved
    \/ \E i \in 1..MaxAgents : SubAgentSessionCreated(i)
    \/ \E i \in 1..MaxAgents : SubAgentFragment(i)
    \/ \E i \in 1..MaxAgents : SubAgentDone(i)
    \/ \E i \in 1..MaxAgents : SubAgentFail(i)
    \/ JoinFulfilled
    \/ SummarizerSessionCreated
    \/ SummarizerFragment
    \/ SummarizerPromptFulfilled
    \/ CopyFileOpen
    \/ CopyFileWrite
    \/ SummarizerFail
    \/ /\ mode = "idle"
       /\ \E modelId \in ModelIds, available \in AvailableLists :
             \E key \in ApiKeys(available) : StartContinue(modelId, available, key)
    \/ ContinueModelResolved
    \/ ContinueSessionCreated
    \/ ContinueFragment
    \/ ContinueDone
    \/ ContinueFail
    \/ Exit
    \/ Crash

SpecCrash == Init /\ [][NextCrash]_vars

\* ------------------------------------------- two processes at the same time
\* A second process, `pr-review -c MSG`, runs continueReview while the
\* invocations above go on; both work in the same SESSION_DIR.  Its turns
\* carry the invocation number 0.
OtherInv == 0

\* continueReview of the second process up to `await session.prompt`: the
\* existence check, SessionManager.open(SESSION_FILE, SESSION_DIR), which
\* reads the conversation at the pointer, and the prompt sent.
OtherContinueStart ==
    /\ other.pc = "ready"
    /\ other' = IF HasPreviousSession(files)
                THEN [pc |-> "prompting", opened |-> files[ContinueSessionFile].log]
                ELSE [pc |-> "rejected", opened |-> <<>>]
    /\ UNCHANGED <<coreVars, argv, cli, verbose>>

\* Its prompt fulfils: the session manager persists the exchange to the file
\* it was opened on, by appending to what is there now or by writing out the
\* conversation it holds (the library is not part of this repository).
OtherContinueDone ==
    /\ other.pc = "prompting"
    /\ \/ files' = appendTurn(files, ContinueSessionFile,
                              Turn("continuation", OtherInv))
       \/ files' = [files EXCEPT ![ContinueSessionFile] =
                       File(other.opened \o <<Turn("continuation", OtherInv)>>)]
    /\ other' = [other EXCEPT !.pc = "done"]
    /\ UNCHANGED <<inv, procVars, argv, cli, verbose>>

\* Its prompt rejects.
OtherContinueFail ==
    /\ other.pc = "prompting"
    /\ other' = [other EXCEPT !.pc = "rejected"]
    /\ UNCHANGED <<coreVars, argv, cli, verbose>>

InitConcurrent ==
    /\ InitCore
    /\ argv = <<>>
    /\ cli = CliInit
    /\ other = [pc |-> "ready", opened |-> <<>>]
    /\ verbose = FALSE

NextConcurrent ==
    \/ Next
    \/ OtherContinueStart
    \/ OtherContinueDone
    \/ OtherContinueFail

SpecConcurrent == InitConcurrent /\ [][NextConcurrent]_vars

\* ------------------------------------------------------- transport retries
\* Inside `await session.prompt(...)` the session meets a transport error and
\* sends the turn again, as its retry setting allows.  The prompt stays in
\* flight; runSubAgent / runSummarizer / continueReview see nothing of it.
SubAgentRetry(i) ==
    /\ mode = "review"
    /\ i \in 1..Len(task)
    /\ task[i].st = "prompting"
    /\ CanRetry(task[i].h)
    /\ task' = [task EXCEPT ![i].h = Retry(@)]
    /\ UNCHANGED <<inv, mode, pc, agentNames, model, completed, reports,
                   summarizerCalls, originalFile, sessionOpen, stdout, err, files,
                   prompt, handle, aux,
                   stderr, shown, timers>>

DurableRetry ==
    /\ pc \in {"summarizer_prompting", "continue_prompting"}
    /\ CanRetry(handle)
    /\ handle' = Retry(handle)
    /\ UNCHANGED <<inv, mode, pc, agentNames, model, task, completed, reports,
                   summarizerCalls, originalFile, sessionOpen, stdout, err, files,
                   prompt, aux,
                   stderr, shown, timers>>

\* The invocations with retries; the delivery of text fragments, which no
\* retry setting or start of a task depends on, is left out.
NextRetry ==
    \/ /\ mode = "idle"
       /\ \E names \in AgentNameLists, modelId \in ModelIds, available \in AvailableLists :
             \E key \in ApiKeys(available) : StartReview(names, modelId, available, key)
    \/ ReviewModelResolved
    \/ \E i \in 1..MaxAgents : SubAgentSessionCreated(i)
    \/ \E i \in 1..MaxAgents : SubAgentRetry(i)
    \/ \E i \in 1..MaxAgents : SubAgentDone(i)
    \/ \E i \in 1..MaxAgents : SubAgentFail(i)
    \/ JoinFulfilled
    \/ SummarizerSessionCreated
    \/ SummarizerDone
    \/ SummarizerFail
    \/ /\ mode = "idle"
       /\ \E modelId \in ModelIds, available \in AvailableLists :
             \E key \in ApiKeys(available) : StartContinue(modelId, available, key)
    \/ ContinueModelResolved
    \/ ContinueSessionCreated
    \/ DurableRetry
    \/ ContinueDone
    \/ ContinueFail
    \/ Exit

SpecRetry == Init /\ [][NextRetry]_vars

\* ---------------------------------------------------------------- --verbose
\* The same invocations run with --verbose.
InitVerbose ==
    /\ InitCore
    /\ argv = <<>>
    /\ cli = CliInit
    /\ other = OtherOff
    /\ verbose = TRUE

\* One invocation of runReview (continueReview has no verbose option).
NextVerbose ==
    \/ /\ mode = "idle"
       /\ \E names \in AgentNameLists, modelId \in ModelIds, available \in AvailableLists :
             \E key \in ApiKeys(available) : StartReview(names, modelId, available, key)
    \/ ReviewModelResolved
    \/ \E i \in 1..MaxAgents : SubAgentSessionCreated(i)
    \/ \E i \in 1..MaxAgents : SubAgentFragment(i)
    \/ \E i \in 1..MaxAgents : SubAgentDone(i)
    \/ \E i \in 1..MaxAgents : SubAgentFail(i)
    \/ JoinFulfilled
    \/ SummarizerSessionCreated
    \/ SummarizerFragment
    \/ SummarizerDone
    \/ SummarizerFail

SpecVerbose == InitVerbose /\ [][NextVerbose]_vars

\* cli.ts from the command line to the call of continueReview or runReview.
InitCli ==
    /\ InitCore
    /\ argv \in Argvs
    /\ cli = CliInit
    /\ other = OtherOff
    /\ verbose = FALSE

NextCli ==
    \/ CliParseArg
    \/ CliDispatchContinue
    \/ \E outcome \in GitOutcomes : CliDispatchReview(outcome)

SpecCli == InitCli /\ [][NextCli]_vars

\* ================================================================ claims
Pointer == files[SESSION_FILE]

DisplayNames(names) == [i \in 1..Len(names) |-> AGENTS(names[i]).name]

NoRepeatedId(names) ==
    \A i, j \in 1..Len(names) : names[i] = names[j] => i = j

DistinctIds(names) == {names[i] : i \in 1..Len(names)}

\* The entries of a list that no earlier entry equals, in their order.
RECURSIVE FirstOccurrences(_)
FirstOccurrences(q) ==
    IF q = <<>> THEN <<>>
    ELSE LET front == SubSeq(q, 1, Len(q) - 1)
             last == q[Len(q)]
         IN  IF \E j \in 1..Len(front) : front[j] = last
             THEN FirstOccurrences(front)
             ELSE Append(FirstOccurrences(front), last)

\* C1: whenever the Synthesis Stage has been entered for a non-empty
\* request, the Report Collection iterates in request order: its keys are
\* the selected agents in the order of agentNames (each at the place of its
\* first entry) -- for a request without a repeated id exactly the request
\* list -- whatever the order in which the tasks completed.
C1_ReportOrderIsRequestOrder ==
    (summarizerCalls > 0 /\ Len(agentNames) > 0) =>
        /\ MapKeys(reports) = FirstOccurrences(DisplayNames(agentNames))
        /\ NoRepeatedId(agentNames) => MapKeys(reports) = DisplayNames(agentNames)

\* Two distinct agents that completed in the order opposite to the request.
C1_Witness ==
    /\ summarizerCalls > 0
    /\ Len(agentNames) = 2
    /\ agentNames[1] # agentNames[2]
    /\ completed = <<agentNames[2], agentNames[1]>>
    /\ MapKeys(reports) = DisplayNames(agentNames)

\* C2: if any agent task has failed, runReview has rejected and
\* runSummarizer has not been entered in this invocation, whatever state the
\* other tasks are in.
C2_FailedTaskRejectsWithoutSynthesis ==
    (mode = "review" /\ \E i \in 1..Len(task) : task[i].st \in {"failed", "unknown"}) =>
        /\ pc = "rejected"
        /\ err # NoError
        /\ summarizerCalls = 0
        /\ reports = <<>>

\* One task failed its prompt after a sibling had already completed.
C2_Witness ==
    /\ pc = "rejected"
    /\ \E i, j \in 1..Len(task) :
          /\ task[i].st = "failed"
          /\ task[j].st = "resolved"
          /\ err = Error("ModelInvocationFailed", i)

\* C3: the join is a full barrier: once runSummarizer has been entered (its
\* conversation being opened, its prompt in flight, or done), every agent
\* task has completed successfully; none is still opening or prompting.
C3_JoinIsFullBarrier ==
    (mode = "review" /\ (\/ summarizerCalls > 0
                         \/ pc \in {"summarizer_opening", "summarizer_prompting", "done"})) =>
        /\ Len(task) = Len(agentNames)
        /\ \A i \in 1..Len(task) : task[i].st = "resolved"
        /\ Len(completed) = Len(agentNames)

\* The synthesis prompt in flight behind two completed agent tasks.
C3_Witness ==
    /\ pc = "summarizer_prompting"
    /\ sessionOpen
    /\ Len(task) = 2
    /\ \A i \in 1..Len(task) : Len(task[i].result) = MaxFrags

\* C4 as stated: at synthesis the Report Collection has one report per entry
\* of agentNames, a repeated id included.
C4_OneReportPerEntry ==
    summarizerCalls > 0 => Len(reports) = Len(agentNames)

\* C4, amended: at synthesis the Report Collection has exactly one report per
\* distinct selected agent (keys pairwise different, one for each selected
\* id); its size is the number of entries of agentNames exactly when no id is
\* repeated.
C4_OneReportPerDistinctAgent ==
    summarizerCalls > 0 =>
        /\ Len(reports) = Cardinality(DistinctIds(agentNames))
        /\ \A a, b \in 1..Len(reports) : reports[a][1] = reports[b][1] => a = b
        /\ {reports[a][1] : a \in 1..Len(reports)}
              = {AGENTS(id).name : id \in DistinctIds(agentNames)}
        /\ (Len(reports) = Len(agentNames)) <=> NoRepeatedId(agentNames)

\* A request that names the same agent twice reaches synthesis with a single
\* report, the one of the later entry.
C4_Witness ==
    /\ summarizerCalls > 0
    /\ Len(agentNames) = 2
    /\ agentNames[1] = agentNames[2]
    /\ Len(task[2].result) > 0
    /\ reports = <<<<AGENTS(agentNames[1]).name, task[2].result>>>>

\* C5: no step of a review changes the well-known pointer unless it is the
\* step that completes the review successfully; so a review that fails at
\* any stage leaves the pointer as it was before the invocation (absent, or
\* the previous session).
C5_FailedReviewLeavesPointer ==
    [][(mode' = "review" /\ pc' # "done") => files'[SESSION_FILE] = files[SESSION_FILE]]_vars

\* A review whose synthesis prompt failed, with the session of an earlier
\* review still at the pointer.
C5_Witness ==
    /\ mode = "review"
    /\ pc = "rejected"
    /\ summarizerCalls = 1
    /\ err = Error("ModelInvocationFailed", 0)
    /\ files[originalFile].exists
    /\ Pointer.exists
    /\ Pointer.log[1] = Turn("synthesis", 1)

\* C6: when runReview has completed successfully the pointer holds exactly
\* the conversation of this review's synthesis, and the review whose
\* conversation is at the pointer is never replaced by an older one.
C6_PointerIsLatestSynthesis ==
    /\ [](mode = "review" /\ pc = "done" =>
             /\ Pointer = File(<<Turn("synthesis", inv)>>)
             /\ Pointer = files[originalFile])
    /\ [][(Pointer.exists /\ Pointer.log # <<>>) =>
             /\ Pointer'.exists
             /\ Pointer'.log # <<>>
             /\ Pointer'.log[1].inv >= Pointer.log[1].inv]_vars

\* A later successful review has put its own session at the pointer.
C6_Witness ==
    /\ mode = "review"
    /\ pc = "done"
    /\ inv = 3
    /\ Pointer = File(<<Turn("synthesis", 3)>>)

\* C7: continueReview rejects with the no-previous-session error exactly when
\* the pointer does not exist, and then no model has been resolved and no
\* conversation opened; when the pointer exists it never fails that way.
C7_NoPreviousSession ==
    mode = "continue" =>
        /\ ~Pointer.exists =>
              /\ pc = "rejected"
              /\ err = Error("NoPreviousSession", 0)
              /\ model = Unresolved
              /\ ~sessionOpen
        /\ Pointer.exists => err.type # "NoPreviousSession"

\* The continuation after exactly one successful synthesis has succeeded.
C7_Witness ==
    /\ mode = "continue"
    /\ pc = "done"
    /\ Pointer = File(<<Turn("synthesis", 1), Turn("continuation", 2)>>)

\* C8: a continuation that completes successfully appends exactly one
\* exchange, its own, to the file at the pointer and changes nothing else in
\* it nor the internal backing file; the log at the pointer is always one
\* synthesis exchange followed by turns of later invocations, each at most
\* once.
C8_OneTurnPerContinuation ==
    /\ [][(mode = "continue" /\ pc # "done" /\ pc' = "done") =>
             /\ Pointer' = File(Pointer.log \o <<Turn("continuation", inv)>>)
             /\ files'[ORIGINAL_FILE] = files[ORIGINAL_FILE]]_vars
    /\ [](Pointer.exists =>
             /\ Len(Pointer.log) >= 1
             /\ Pointer.log[1].kind = "synthesis"
             /\ \A k \in 2..Len(Pointer.log) :
                   /\ Pointer.log[k].kind \in {"continuation", "partial"}
                   /\ Pointer.log[k].inv > Pointer.log[k - 1].inv)

\* Two successive successful continuations of the same review.
C8_Witness ==
    /\ mode = "continue"
    /\ pc = "done"
    /\ Pointer = File(<<Turn("synthesis", 1), Turn("continuation", 2),
                        Turn("continuation", 3)>>)

\* C9 as stated: when runReview has rejected with the unknown-agent error, no
\* Agent Task Executor has been started for any entry of the request: no
\* conversation is being opened and no prompt has been sent.
C9_UnknownAgentBeforeAnyTask ==
    err.type = "UnknownAgent" =>
        \A i \in 1..Len(task) : task[i].st = "unknown"

\* C10: when model resolution has failed in runReview, no agent task exists,
\* no conversation is open and runSummarizer has not been called.
C10_NoModelAbortsBeforeFanOut ==
    (mode = "review" /\ err.type = "NoModelAvailable") =>
        /\ pc = "rejected"
        /\ task = <<>>
        /\ completed = <<>>
        /\ ~sessionOpen
        /\ summarizerCalls = 0
        /\ originalFile = NoPath

\* A request for two agents rejected for want of a model.
C10_Witness ==
    /\ mode = "review"
    /\ err = Error("NoModelAvailable", 0)
    /\ Len(agentNames) = 2
    /\ \A i \in 1..2 : IsRegistered(agentNames[i])

SectionLabels(q) ==
    [j \in 1..(Len(q) - 1) |-> q[j + 1].label]

C13_ContinueRunsOnlyContinuation ==
    (cli.continueMessage # Undefined /\ cli.pc # "parsing") =>
        /\ ~cli.ranGit
        /\ cli.pc # "runReview"

\* pr-review's own options: the flags, and those that take a value.
OwnFlags == {"-h", "-v"}

OwnValued == {"-a", "-c"}

\* The arguments from position i on that are neither an option of pr-review
\* nor the value of one, in their order; `-U N` counts as git's -UN.
RECURSIVE GitArguments(_, _)
GitArguments(args, i) ==
    IF i > Len(args) THEN <<>>
    ELSE IF args[i] \in OwnFlags THEN GitArguments(args, i + 1)
    ELSE IF args[i] \in OwnValued THEN GitArguments(args, i + 2)
    ELSE IF args[i] = "-U" /\ i + 1 <= Len(args) /\ IsDigits(args[i + 1])
         THEN <<DashU(args[i + 1])>> \o GitArguments(args, i + 2)
    ELSE <<args[i]>> \o GitArguments(args, i + 1)

\* A unified-context option (-UN, -U N, --unified=N) is among them.
UnifiedGiven(args) ==
    \E k \in 1..Len(GitArguments(args, 1)) :
        \/ IsUnifiedEq(GitArguments(args, 1)[k])
        \/ GitArguments(args, 1)[k] \in {DashU(n) : n \in {"5"}}

\* C14 as stated: git diff is run with every argument that is not an option
\* of pr-review or its value, in the original order and none dropped, after
\* a default -U10 exactly when no unified-context option was given.
C14_GitArgumentsPassedThrough ==
    cli.ranGit =>
        cli.gitCommand =
            (IF UnifiedGiven(argv) THEN <<>> ELSE <<DashU("10")>>)
                \o GitArguments(argv, 1)

\* C15: an invocation has failed exactly when it holds one error; that
\* error, once set, stays the same until the process ends, whatever fails
\* later; and when it comes from an agent task it is the error of the task
\* that failed first (no task had failed before it), for an unknown id the
\* one of the first such entry.
C15_SingleFirstError ==
    /\ []((pc = "rejected") <=> (err # NoError))
    /\ [][(err # NoError /\ mode' # "idle") => err' = err]_vars
    /\ [][(err = NoError /\ err' # NoError /\ mode = "review" /\ err'.from > 0) =>
             /\ task'[err'.from].st \in {"failed", "unknown"}
             /\ \A j \in 1..Len(task) : task[j].st # "failed"
             /\ \A j \in 1..(err'.from - 1) : task'[j].st # "unknown"]_vars

\* Both tasks of a review have failed, the second of the request first: the
\* error is still that one's.
C15_Witness ==
    /\ mode = "review"
    /\ pc = "rejected"
    /\ Len(task) = 2
    /\ task[1].st = "failed"
    /\ task[2].st = "failed"
    /\ err = Error("ModelInvocationFailed", 2)

\* A file that holds a whole session: the synthesis exchange of one review,
\* then turns of later invocations.
CompleteSession(f) ==
    /\ f.exists
    /\ Len(f.log) >= 1
    /\ f.log[1].kind = "synthesis"

\* C16 as stated: when the process has been killed at any point of the
\* Synthesis Stage, the promotion included, the well-known pointer is absent
\* or holds a whole session (the previous one or the new one), never a
\* truncated file.
C16_CrashLeavesPointerWhole ==
    mode = "idle" => (Pointer = Absent \/ CompleteSession(Pointer))

WritesPointer == mode = "continue" /\ sessionOpen

OtherWritesPointer == other.pc = "prompting"

\* C18 as stated: with a second process running at the same time, the file
\* at the pointer never has two processes writing to it, and the turn that a
\* successful continuation has appended sits in the conversation of the
\* review it was opened on.
C18_SingleWriterOfPointer ==
    /\ ~(WritesPointer /\ OtherWritesPointer)
    /\ \A k \in 1..Len(Pointer.log) :
          Pointer.log[k] = Turn("continuation", OtherInv) =>
              Pointer.log[1] = other.opened[1]

\* The first n fragments of conversation i, in the order produced.
OwnFragments(i, n) == [k \in 1..n |-> <<i, k>>]

C20_HandlesDisposed ==
    /\ \A i \in 1..Len(task) :
          task[i].st \in {"resolved", "failed"} => task[i].session = "disposed"
    /\ pc \in {"done", "rejected"} => ~sessionOpen

\* Task i of the current review is started and has not settled.
InFlight(i) == i \in 1..Len(task) /\ task[i].st \in {"opening", "prompting"}

\* C21 as stated: in the invocation as run from the command line, the
\* top-level error handler included, a task that is in flight is never cut
\* off: it stays until it has completed or failed by itself.
C21_SiblingsNeverAborted ==
    [][\A i \in 1..MaxAgents : InFlight(i) => i \in 1..Len(task')]_vars

\* C21, amended: inside runReview a step settles at most one task, so the
\* failure of a task leaves every sibling in flight as it was, free to
\* complete or fail later, and after a failure no report is consumed (no
\* Report Collection, no synthesis); the one step that ends tasks in flight
\* is the end of the process after runReview has rejected, which is what the
\* top-level handler's process.exit(1) does.
C21_SiblingsEndOnlyWithProcess ==
    /\ [][mode' = "review" =>
             \A i, j \in 1..Len(task) :
                 (task'[i] # task[i] /\ task'[j] # task[j]) => i = j]_vars
    /\ [][\A i \in 1..Len(task) :
             task[i].st \in {"resolved", "failed", "unknown"} /\ mode' = "review"
                 => task'[i] = task[i]]_vars
    /\ [][(\E i \in 1..MaxAgents : InFlight(i) /\ i \notin 1..Len(task')) =>
             /\ pc = "rejected"
             /\ mode' = "idle"]_vars
    /\ []((mode = "review" /\ \E i \in 1..Len(task) : task[i].st = "failed") =>
             /\ reports = <<>>
             /\ summarizerCalls = 0)

\* A review rejected for an unknown id at fan-out, whose other task has
\* since received all its fragments and completed.
C21_Witness ==
    /\ mode = "review"
    /\ pc = "rejected"
    /\ err.type = "UnknownAgent"
    /\ \E i \in 1..Len(task) :
          /\ task[i].st = "resolved"
          /\ task[i].emitted = MaxFrags

\* C22: no handle is ever sent a prompt before its subscriber is registered
\* and none is sent more than one prompt: an agent task, the synthesis and
\* the continuation each have, while their prompt is in flight, a subscribed
\* handle with exactly that one prompt, and before that none.
C22_SubscribedThenOnePrompt ==
    /\ \A i \in 1..Len(task) :
          /\ ~task[i].h.early
          /\ task[i].h.prompts <= 1
          /\ task[i].st = "prompting" =>
                (task[i].h.subscribed /\ task[i].h.prompts = 1)
          /\ task[i].st \in {"opening", "unknown"} => task[i].h = NoHandle
    /\ ~handle.early
    /\ handle.prompts <= 1
    /\ pc \in {"summarizer_prompting", "continue_prompting"} =>
          (handle.subscribed /\ handle.prompts = 1)
    /\ pc \in {"summarizer_opening", "continue_opening", "resolving", "joining"} =>
          handle = NoHandle

\* The synthesis prompt in flight after two agent prompts, each handle
\* having got its single prompt.
C22_Witness ==
    /\ pc = "summarizer_prompting"
    /\ handle.prompts = 1
    /\ Len(task) = 2
    /\ \A i \in 1..2 : task[i].h = SubscribeAndPrompt(NoHandle)

\* C23: with transport retries happening, a review has one task per entry
\* of the request, each sent its prompt at most once, and calls runSummarizer
\* at most once; a task that has settled and a review that has rejected stay
\* so until the process ends; a retry happens only while a prompt is in
\* flight, changes nothing else of the task, and no turn is retried more
\* than maxRetries (2) times.
C23_NoRetryAboveTransport ==
    /\ [](/\ Len(task) \in {0, Len(agentNames)}
          /\ summarizerCalls <= 1
          /\ handle.retries <= maxRetries
          /\ handle.prompts <= 1
          /\ \A i \in 1..Len(task) :
                /\ task[i].h.prompts <= 1
                /\ task[i].h.retries <= maxRetries)
    /\ [][mode' # "idle" =>
             /\ pc = "rejected" => pc' = "rejected"
             /\ summarizerCalls' >= summarizerCalls
             /\ \A i \in 1..Len(task) :
                   /\ task[i].st \in {"resolved", "failed", "unknown"} =>
                         task'[i] = task[i]
                   /\ task'[i].h.retries # task[i].h.retries =>
                         /\ task[i].st = "prompting"
                         /\ task'[i] = [task[i] EXCEPT !.h.retries = @ + 1]]_vars

\* A review that reached its synthesis after one task had used up its
\* retries, the synthesis turn having been retried too.
C23_Witness ==
    /\ pc = "summarizer_prompting"
    /\ summarizerCalls = 1
    /\ handle.retries = maxRetries
    /\ \E i \in 1..Len(task) :
          /\ task[i].st = "resolved"
          /\ task[i].h.retries = maxRetries
          /\ task[i].h.prompts = 1

\* The fragments of the agents that stderr holds.
StderrDeltas(out) == {out[n] : n \in {m \in 1..Len(out) : out[m][1] = "delta"}}

\* C24: with --verbose, a step that writes an agent's fragment to stderr is
\* taken only while stdout is still empty; and once a synthesis fragment is
\* on stdout, every fragment that every agent produced is on stderr already
\* and all agent tasks have completed.
C24_AgentOutputBeforeSummary ==
    /\ [][(mode' = "review" /\ StderrDeltas(stderr') # StderrDeltas(stderr)) =>
             /\ stdout = <<>>
             /\ stdout' = <<>>]_vars
    /\ []((mode = "review" /\ stdout # <<>>) =>
             \A i \in 1..Len(task) :
                /\ task[i].st = "resolved"
                /\ \A k \in 1..task[i].emitted : <<"delta", i, k>> \in StderrDeltas(stderr))

\* The summary has begun after two agents whose output reached stderr in the
\* order opposite to the request.
C24_Witness ==
    /\ verbose
    /\ mode = "review"
    /\ Len(stdout) > 0
    /\ stdout[1] = <<"summary", 1>>
    /\ Len(task) = 2
    /\ \E m, n \in 1..Len(stderr) :
          /\ m < n
          /\ stderr[m] = <<"delta", 2, 1>>
          /\ stderr[n] = <<"delta", 1, 1>>


\* ---------------------------------------------------------------------
\* C25  The count of completed agents only grows, by one for each agent
\* task that finishes and by nothing else, in the order the tasks finish;
\* it never exceeds the number of selected agents and equals it once the
\* join has succeeded.  The count in the spinner's text never goes down,
\* never runs ahead of the completed agents, moves one at a time when no
\* id is requested twice, and is the number of selected agents once the
\* join has succeeded.  The Report Collection is in request order whatever
\* the order of `completed`.
Finishes(i) ==
    /\ i \in 1..Len(task)
    /\ task[i].st = "prompting"
    /\ task'[i].st = "resolved"

C26_SpinnersStopped ==
    (mode \in {"review", "continue"} /\ pc = "done") => timers = {}

\* ---------------------------------------------------------------------
\* C27  runReview with an empty list of agent ids starts no agent task and
\* records no completion; once the model is resolved it is at the join,
\* which can be passed at once; the Synthesis Stage then runs with an empty
\* Report Collection, its prompt holding the diff only, and when it is
\* done the pointer holds the conversation of this invocation.
C27_EmptyRequestStillSynthesises ==
    /\ [](mode = "review" /\ agentNames = <<>> =>
            /\ task = <<>>
            /\ completed = <<>>
            /\ err \in {NoError, Error("NoModelAvailable", 0),
                        Error("ModelInvocationFailed", 0)}
            /\ (pc = "joining" => ENABLED JoinFulfilled)
            /\ (summarizerCalls > 0 => reports = <<>>)
            /\ (pc \in {"summarizer_prompting", "done"} =>
                    prompt = <<DiffPart(Diff)>>)
            /\ (pc = "done" =>
                    /\ summarizerCalls = 1
                    /\ Pointer = File(<<Turn("synthesis", inv)>>)))
    /\ [][(mode = "review" /\ agentNames = <<>> /\ pc = "resolving"
              /\ model.ok /\ pc' # pc) => pc' = "joining"]_vars

\* A finished review of no agent: one synthesis, the pointer promoted.
C27_Witness ==
    /\ mode = "review"
    /\ agentNames = <<>>
    /\ pc = "done"
    /\ summarizerCalls = 1
    /\ reports = <<>>
    /\ prompt = <<DiffPart(Diff)>>
    /\ Pointer = File(<<Turn("synthesis", inv)>>)

====
